---- MODULE Spec2Model ----
(***************************************************************************)
(* Limit order book matching engine (src/src/include/orderbook.hpp).       *)
(*                                                                         *)
(* The book is two OrderBookSide objects (bids, asks).  Each side owns a   *)
(* dense ladder levels_[NUM_LEVELS], an OrderPool with an intrusive free   *)
(* list, and the cursor best_price_index_.  Pointers into a pool are       *)
(* modelled as slot indices 0..MAX_ORDERS-1, the null pointer as nullptr.  *)
(*                                                                         *)
(* submit_order is single-threaded and synchronous.  Its execution is      *)
(* unrolled along its control flow (pc): the call entry, the outer and     *)
(* inner loops of match_buy / match_sell, and the add_order of the         *)
(* remainder.  No other call can start before pc is back to "idle".        *)
(*                                                                         *)
(* The ladder window and the pool capacity are scaled down: the ladder     *)
(* covers PRICE_MIN .. PRICE_MIN + LadderSpan ticks (900 .. 902, a window  *)
(* of the source's 800 .. 1200) and a pool has PoolSize slots.             *)
(*                                                                         *)
(* entry and enqueued are history variables: no action reads them to       *)
(* decide what the book does.                                              *)
(***************************************************************************)
EXTENDS Integers, Sequences, FiniteSets, TLC

\* ---------------------------------------------------------------- bounds
PoolSize == 2
LadderSpan == 2
MaxQty == 2
MaxId == 0

\* ------------------------------------------------------------- constants
MAX_ORDERS == PoolSize
PRICE_MIN == 900
TICK_SIZE == 1
PRICE_MAX == PRICE_MIN + LadderSpan * TICK_SIZE
NUM_LEVELS == (PRICE_MAX - PRICE_MIN) \div TICK_SIZE + 1

nullptr == -1

Slots == 0 .. (MAX_ORDERS - 1)
LevelIdx == 0 .. (NUM_LEVELS - 1)

\* Inputs of submit_order: every in-range price, and one price just outside
\* each end of the ladder; quantity 0 is the no-op submission.
InRangePrices == { PRICE_MIN + i * TICK_SIZE : i \in LevelIdx }
Prices == InRangePrices \cup { PRICE_MIN - 1, PRICE_MAX + 1 }
Quantities == 0 .. MaxQty
\* Order ids are caller-supplied and opaque to the engine.  Bids draw them
\* from 0..MaxId and asks from the next MaxId+1 values, so that the taker and
\* the maker of a trade can be told apart.
Ids(is_bid) == IF is_bid THEN 0 .. MaxId ELSE (MaxId + 1) .. (2 * MaxId + 1)

VARIABLES
    bids,               \* OrderBook::bids
    asks,               \* OrderBook::asks
    trades,             \* the caller's std::vector<Trade>& collector
    pc,                 \* position inside submit_order
    incoming,           \* arguments of the current (or last) submit_order
    incoming_quantity,  \* local of match_buy / match_sell; then `remaining`
    level,              \* local PriceLevel* of match_buy / match_sell, as a
                        \* ladder index; NUM_LEVELS outside the matching loops
    entry,              \* history: both sides as they were at call entry
    enqueued            \* history: per side, live slots in order of add_order

vars == << bids, asks, trades, pc, incoming, incoming_quantity, level, entry, enqueued >>

\* ------------------------------------------------------------ OrderPool
\* OrderPool(): slot i links to i+1, the last slot to nullptr.  The payload
\* fields are not initialised by the constructor and are never read before
\* add_order writes them; they are shown as 0.
OrderPool ==
    [ pool_ |-> [ i \in Slots |->
                    [ order_id_ |-> 0, price_ |-> 0, quantity_ |-> 0,
                      next_ |-> IF i < MAX_ORDERS - 1 THEN i + 1 ELSE nullptr ] ],
      next_free_ |-> 0 ]

\* Faulty variant of allocate: no exhaustion check, the first slot is handed out.
allocate_unchecked(p) ==
    LET order == IF p.next_free_ = nullptr THEN 0 ELSE p.next_free_ IN
    [ order |-> order,
      pool  |-> [ pool_ |-> [ p.pool_ EXCEPT ![order].next_ = nullptr ],
                  next_free_ |-> IF p.next_free_ = nullptr THEN nullptr
                                 ELSE p.pool_[order].next_ ] ]

\* allocate(): pops the free-list head; order = nullptr when exhausted.
allocate(p) ==
    IF p.next_free_ = nullptr
    THEN [ order |-> nullptr, pool |-> p ]
    ELSE LET order == p.next_free_ IN
         [ order |-> order,
           pool  |-> [ pool_ |-> [ p.pool_ EXCEPT ![order].next_ = nullptr ],
                       next_free_ |-> p.pool_[order].next_ ] ]

\* Faulty variant of deallocate: the free list is cut off behind the slot.
deallocate_drop_tail(p, order) ==
    [ pool_ |-> [ p.pool_ EXCEPT ![order].next_ = nullptr ],
      next_free_ |-> order ]

\* Faulty variant of deallocate: the slot is not pushed on the free list.
deallocate_leak(p, order) == p

\* deallocate(order): pushes the slot on the free list.
deallocate(p, order) ==
    [ pool_ |-> [ p.pool_ EXCEPT ![order].next_ = p.next_free_ ],
      next_free_ |-> order ]

\* --------------------------------------------------------- OrderBookSide
OrderBookSide(is_bid) ==
    [ levels_ |-> [ i \in LevelIdx |->
                      [ price_ |-> PRICE_MIN + i * TICK_SIZE,
                        total_quantity_ |-> 0,
                        first_ |-> nullptr,
                        last_ |-> nullptr ] ],
      pool_ |-> OrderPool,
      is_bid_ |-> is_bid,
      best_price_index_ |-> NUM_LEVELS ]

\* The condition asserted by price_to_index.
price_in_range(price) == price >= PRICE_MIN /\ price <= PRICE_MAX

price_to_index(price) == (price - PRICE_MIN) \div TICK_SIZE

\* Faulty variant of update_best_bid_after_order: the comparison is the ask
\* side's.
update_best_bid_after_order_less(s, price_idx) ==
    IF s.best_price_index_ = NUM_LEVELS \/ price_idx < s.best_price_index_
    THEN [ s EXCEPT !.best_price_index_ = price_idx ]
    ELSE s

update_best_bid_after_order(s, price_idx) ==
    IF s.best_price_index_ = NUM_LEVELS \/ price_idx > s.best_price_index_
    THEN [ s EXCEPT !.best_price_index_ = price_idx ]
    ELSE s

\* Faulty variant of update_best_ask_after_order: the comparison is the bid side's.
update_best_ask_after_order_greater(s, price_idx) ==
    IF s.best_price_index_ = NUM_LEVELS \/ price_idx > s.best_price_index_
    THEN [ s EXCEPT !.best_price_index_ = price_idx ]
    ELSE s

update_best_ask_after_order(s, price_idx) ==
    IF s.best_price_index_ = NUM_LEVELS \/ price_idx < s.best_price_index_
    THEN [ s EXCEPT !.best_price_index_ = price_idx ]
    ELSE s

\* for (size_t i = old_idx; i-- > 0; ): the body sees old_idx-1 down to 0.
RECURSIVE scan_bid_down(_, _)
scan_bid_down(levels, i) ==
    IF i > 0
    THEN IF levels[i - 1].total_quantity_ > 0
         THEN i - 1
         ELSE scan_bid_down(levels, i - 1)
    ELSE NUM_LEVELS

\* Faulty variant of update_best_bid_after_empty: the scan starts one level too low.
update_best_bid_after_empty_skip(s, old_idx) ==
    [ s EXCEPT !.best_price_index_ =
        IF old_idx > 0 THEN scan_bid_down(s.levels_, old_idx - 1) ELSE NUM_LEVELS ]

update_best_bid_after_empty(s, old_idx) ==
    [ s EXCEPT !.best_price_index_ = scan_bid_down(s.levels_, old_idx) ]

\* for (size_t i = old_idx + 1; i < NUM_LEVELS; ++i)
RECURSIVE scan_ask_up(_, _)
scan_ask_up(levels, i) ==
    IF i < NUM_LEVELS
    THEN IF levels[i].total_quantity_ > 0
         THEN i
         ELSE scan_ask_up(levels, i + 1)
    ELSE NUM_LEVELS

update_best_ask_after_empty(s, old_idx) ==
    [ s EXCEPT !.best_price_index_ = scan_ask_up(s.levels_, old_idx + 1) ]

\* Faulty variant of enqueue_order: the new order is linked in front of the queue.
enqueue_order_at_head(s, idx, order) ==
    IF s.levels_[idx].first_ = nullptr
    THEN [ s EXCEPT !.levels_[idx].first_ = order,
                    !.levels_[idx].last_ = order ]
    ELSE [ s EXCEPT !.pool_.pool_[order].next_ = s.levels_[idx].first_,
                    !.levels_[idx].first_ = order ]

\* Lines 98-105 of add_order: append `order` at the tail of the level queue.
enqueue_order(s, idx, order) ==
    IF s.levels_[idx].first_ = nullptr
    THEN [ s EXCEPT !.levels_[idx].first_ = order,
                    !.levels_[idx].last_ = order ]
    ELSE [ s EXCEPT !.pool_.pool_[s.levels_[idx].last_].next_ = order,
                    !.levels_[idx].last_ = order ]

\* add_order for a price that passes the assertion of price_to_index.  The
\* result is the side after the call; when the pool is exhausted the side is
\* returned as it was (the C++ returns nullptr, which submit_order ignores).
add_order(s, price, quantity, id) ==
    LET idx == price_to_index(price)
        a == allocate(s.pool_)
        order == a.order
    IN  IF order = nullptr
        THEN s
        ELSE LET s1 == [ s EXCEPT !.pool_ =
                           [ a.pool EXCEPT !.pool_[order] =
                               [ order_id_ |-> id, price_ |-> price,
                                 quantity_ |-> quantity, next_ |-> nullptr ] ] ]
                 s2 == enqueue_order(s1, idx, order)
                 s3 == [ s2 EXCEPT !.levels_[idx].total_quantity_ = @ + quantity ]
             IN  IF s.is_bid_
                 THEN update_best_bid_after_order(s3, idx)
                 ELSE update_best_ask_after_order(s3, idx)

\* Faulty variant of Min: the larger of the two.
Max(a, b) == IF a >= b THEN a ELSE b

Min(a, b) == IF a <= b THEN a ELSE b

Trade(taker, maker, price, quantity) ==
    [ taker_order_id |-> taker, maker_order_id |-> maker,
      price |-> price, quantity |-> quantity ]

\* The crossing tests of the outer loops (lines 154 and 194).
\* Faulty variant of crosses_buy: the comparison is reversed.
crosses_buy_reversed(level_price, incoming_price) == level_price >= incoming_price
crosses_buy(level_price, incoming_price) == level_price <= incoming_price
\* Faulty variant of crosses_sell: a bid at the incoming price does not cross.
crosses_sell_strict(level_price, incoming_price) == level_price > incoming_price
crosses_sell(level_price, incoming_price) == level_price >= incoming_price

\* Faulty variant of reduce_maker: the level aggregate is not reduced.
reduce_maker_only(s, lv, maker, trade_quantity) ==
    [ s EXCEPT !.pool_.pool_[maker].quantity_ = @ - trade_quantity ]

\* Lines 165 and 167 (204 and 206): the maker and its level give up the
\* traded quantity.
reduce_maker(s, lv, maker, trade_quantity) ==
    [ s EXCEPT !.pool_.pool_[maker].quantity_ = @ - trade_quantity,
               !.levels_[lv].total_quantity_ = @ - trade_quantity ]

\* Lines 171-176 (209-214): unlink a fully filled maker from the head of the
\* level, rescan the cursor when the level is depleted, release the slot.
\* The rescan starts from best_price_index_, as in the code.
remove_maker(s, lv, maker, is_buy) ==
    LET s1 == [ s EXCEPT !.levels_[lv].first_ = s.pool_.pool_[maker].next_ ]
        s2 == IF s1.levels_[lv].first_ = nullptr
              THEN LET s1a == [ s1 EXCEPT !.levels_[lv].last_ = nullptr ]
                   IN  IF is_buy
                       THEN update_best_ask_after_empty(s1a, s1a.best_price_index_)
                       ELSE update_best_bid_after_empty(s1a, s1a.best_price_index_)
              ELSE s1
    IN  [ s2 EXCEPT !.pool_ = deallocate(@, maker) ]

\* Faulty variant of fill_head: the maker is unlinked and released whatever
\* quantity it has left.
fill_head_always_remove(s, lv, qty, incoming_id, is_buy) ==
    LET maker == s.levels_[lv].first_
        m == s.pool_.pool_[maker]
        trade_quantity == Min(m.quantity_, qty)
        s1 == reduce_maker(s, lv, maker, trade_quantity)
    IN  [ side |-> remove_maker(s1, lv, maker, is_buy),
          trade |-> Trade(incoming_id, m.order_id_, m.price_, trade_quantity),
          remaining |-> qty - trade_quantity,
          maker |-> maker,
          removed |-> TRUE ]

\* One iteration of the inner loop body (lines 160-177 of match_buy when
\* is_buy, 199-215 of match_sell otherwise) on the contra side s at level lv.
\* Yields the side, the trade and the quantity left of the incoming order.
fill_head(s, lv, qty, incoming_id, is_buy) ==
    LET maker == s.levels_[lv].first_
        m == s.pool_.pool_[maker]
        trade_quantity == Min(m.quantity_, qty)
        s1 == reduce_maker(s, lv, maker, trade_quantity)
        removed == s1.pool_.pool_[maker].quantity_ = 0
    IN  [ side |-> IF removed THEN remove_maker(s1, lv, maker, is_buy) ELSE s1,
          trade |-> Trade(incoming_id, m.order_id_, m.price_, trade_quantity),
          remaining |-> qty - trade_quantity,
          maker |-> maker,
          removed |-> removed ]

\* ----------------------------------------------------------------- Init
Init ==
    /\ bids = OrderBookSide(TRUE)
    /\ asks = OrderBookSide(FALSE)
    /\ trades = << >>
    /\ pc = "idle"
    /\ incoming = [ price |-> PRICE_MIN, quantity |-> 0, id |-> 0, is_bid |-> TRUE ]
    /\ incoming_quantity = 0
    /\ level = NUM_LEVELS
    /\ entry = [ bids |-> OrderBookSide(TRUE), asks |-> OrderBookSide(FALSE) ]
    /\ enqueued = [ bids |-> << >>, asks |-> << >> ]

\* -------------------------------------------------------------- actions
\* Faulty variant of submit_order: the zero-quantity return comes before the
\* collector is cleared.
submit_order_return_first(price, quantity, id, is_bid) ==
    /\ pc = "idle"
    /\ trades' = IF quantity = 0 THEN trades ELSE << >>
    /\ incoming' = [ price |-> price, quantity |-> quantity, id |-> id, is_bid |-> is_bid ]
    /\ entry' = [ bids |-> bids, asks |-> asks ]
    /\ incoming_quantity' = quantity
    /\ pc' = IF quantity = 0 THEN "idle"
             ELSE IF is_bid THEN "match_buy" ELSE "match_sell"
    /\ UNCHANGED << bids, asks, level, enqueued >>

\* Faulty variant of submit_order: the collector is not cleared.
submit_order_no_clear(price, quantity, id, is_bid) ==
    /\ pc = "idle"
    /\ trades' = trades
    /\ incoming' = [ price |-> price, quantity |-> quantity, id |-> id, is_bid |-> is_bid ]
    /\ entry' = [ bids |-> bids, asks |-> asks ]
    /\ incoming_quantity' = quantity
    /\ pc' = IF quantity = 0 THEN "idle"
             ELSE IF is_bid THEN "match_buy" ELSE "match_sell"
    /\ UNCHANGED << bids, asks, level, enqueued >>

\* submit_order, lines 254-259 / 264: clear the collector, return on a zero
\* quantity, otherwise enter match_buy (bid) or match_sell (ask).
submit_order(price, quantity, id, is_bid) ==
    /\ pc = "idle"
    /\ trades' = << >>
    /\ incoming' = [ price |-> price, quantity |-> quantity, id |-> id, is_bid |-> is_bid ]
    /\ entry' = [ bids |-> bids, asks |-> asks ]
    /\ incoming_quantity' = quantity
    /\ pc' = IF quantity = 0 THEN "idle"
             ELSE IF is_bid THEN "match_buy" ELSE "match_sell"
    /\ UNCHANGED << bids, asks, level, enqueued >>

\* Faulty variant of after_match: a zero remainder is rested too.
after_match_nonnegative(remaining) == IF remaining >= 0 THEN "add_order" ELSE "idle"

\* Where submit_order goes when the matching function returns `remaining`.
after_match(remaining) == IF remaining > 0 THEN "add_order" ELSE "idle"

\* match_buy, outer loop head (lines 148-156).
match_buy_outer ==
    /\ pc = "match_buy"
    /\ IF /\ incoming_quantity > 0
          /\ asks.best_price_index_ # NUM_LEVELS
          /\ crosses_buy(asks.levels_[asks.best_price_index_].price_, incoming.price)
       THEN /\ level' = asks.best_price_index_
            /\ pc' = "match_buy_inner"
       ELSE /\ pc' = after_match(incoming_quantity)
            /\ level' = NUM_LEVELS
    /\ UNCHANGED << bids, asks, trades, incoming, incoming_quantity, entry, enqueued >>

Remove(seq, x) == SelectSeq(seq, LAMBDA y : y # x)

\* match_buy, inner loop (lines 159-178): one iteration, or the loop exit.
match_buy_inner ==
    /\ pc = "match_buy_inner"
    /\ IF incoming_quantity > 0 /\ asks.levels_[level].first_ # nullptr
       THEN LET r == fill_head(asks, level, incoming_quantity, incoming.id, TRUE) IN
            /\ asks' = r.side
            /\ trades' = Append(trades, r.trade)
            /\ incoming_quantity' = r.remaining
            /\ enqueued' = IF r.removed
                           THEN [ enqueued EXCEPT !.asks = Remove(@, r.maker) ]
                           ELSE enqueued
            /\ UNCHANGED pc
       ELSE /\ pc' = "match_buy"
            /\ UNCHANGED << asks, trades, incoming_quantity, enqueued >>
    /\ UNCHANGED << bids, incoming, level, entry >>

\* match_sell, outer loop head (lines 187-196).
match_sell_outer ==
    /\ pc = "match_sell"
    /\ IF /\ incoming_quantity > 0
          /\ bids.best_price_index_ # NUM_LEVELS
          /\ crosses_sell(bids.levels_[bids.best_price_index_].price_, incoming.price)
       THEN /\ level' = bids.best_price_index_
            /\ pc' = "match_sell_inner"
       ELSE /\ pc' = after_match(incoming_quantity)
            /\ level' = NUM_LEVELS
    /\ UNCHANGED << bids, asks, trades, incoming, incoming_quantity, entry, enqueued >>

\* match_sell, inner loop (lines 198-216): one iteration, or the loop exit.
match_sell_inner ==
    /\ pc = "match_sell_inner"
    /\ IF incoming_quantity > 0 /\ bids.levels_[level].first_ # nullptr
       THEN LET r == fill_head(bids, level, incoming_quantity, incoming.id, FALSE) IN
            /\ bids' = r.side
            /\ trades' = Append(trades, r.trade)
            /\ incoming_quantity' = r.remaining
            /\ enqueued' = IF r.removed
                           THEN [ enqueued EXCEPT !.bids = Remove(@, r.maker) ]
                           ELSE enqueued
            /\ UNCHANGED pc
       ELSE /\ pc' = "match_sell"
            /\ UNCHANGED << bids, trades, incoming_quantity, enqueued >>
    /\ UNCHANGED << asks, incoming, level, entry >>

\* Faulty variant of rest_remainder: the remainder is added to the side it
\* was matched against.
rest_remainder_contra_side(quantity) ==
    IF incoming.is_bid
    THEN /\ asks' = add_order(asks, incoming.price, quantity, incoming.id)
         /\ enqueued' = IF asks'.pool_.next_free_ # asks.pool_.next_free_
                        THEN [ enqueued EXCEPT !.asks = Append(@, asks.pool_.next_free_) ]
                        ELSE enqueued
         /\ UNCHANGED bids
    ELSE /\ bids' = add_order(bids, incoming.price, quantity, incoming.id)
         /\ enqueued' = IF bids'.pool_.next_free_ # bids.pool_.next_free_
                        THEN [ enqueued EXCEPT !.bids = Append(@, bids.pool_.next_free_) ]
                        ELSE enqueued
         /\ UNCHANGED asks

\* submit_order, lines 260-262 / 265-267: rest the remainder on the order's
\* own side.  add_order starts with price_to_index, whose assertion fails for
\* an out-of-range price: the process aborts, or, when assertions are
\* compiled out, levels_ is indexed out of bounds (undefined behaviour, after
\* which nothing is known about the book).  Both end the execution.
\* rest_remainder is the add_order call on the side the order belongs to.
rest_remainder(quantity) ==
    IF incoming.is_bid
    THEN /\ bids' = add_order(bids, incoming.price, quantity, incoming.id)
         /\ enqueued' = IF bids'.pool_.next_free_ # bids.pool_.next_free_
                        THEN [ enqueued EXCEPT !.bids = Append(@, bids.pool_.next_free_) ]
                        ELSE enqueued
         /\ UNCHANGED asks
    ELSE /\ asks' = add_order(asks, incoming.price, quantity, incoming.id)
         /\ enqueued' = IF asks'.pool_.next_free_ # asks.pool_.next_free_
                        THEN [ enqueued EXCEPT !.asks = Append(@, asks.pool_.next_free_) ]
                        ELSE enqueued
         /\ UNCHANGED bids

\* Faulty variant of submit_add_order: the original quantity is rested instead of
\* the remainder.
submit_add_order_full_quantity ==
    /\ pc = "add_order"
    /\ IF price_in_range(incoming.price)
       THEN /\ rest_remainder(incoming.quantity)
            /\ pc' = "idle"
       ELSE /\ pc' \in { "aborted", "undefined" }
            /\ UNCHANGED << bids, asks, enqueued >>
    /\ UNCHANGED << trades, incoming, incoming_quantity, level, entry >>

submit_add_order ==
    /\ pc = "add_order"
    /\ IF price_in_range(incoming.price)
       THEN /\ rest_remainder(incoming_quantity)
            /\ pc' = "idle"
       ELSE /\ pc' \in { "aborted", "undefined" }
            /\ UNCHANGED << bids, asks, enqueued >>
    /\ UNCHANGED << trades, incoming, incoming_quantity, level, entry >>

Next ==
    \/ \E price \in Prices, quantity \in Quantities, is_bid \in BOOLEAN :
           \E id \in Ids(is_bid) : submit_order(price, quantity, id, is_bid)
    \/ match_buy_outer
    \/ match_buy_inner
    \/ match_sell_outer
    \/ match_sell_inner
    \/ submit_add_order

Spec == Init /\ [][Next]_vars

\* The five submissions of order_test (price, quantity, id, is_bid).
ScenarioCalls ==
    { << 900, 20, 0, TRUE >>, << 901, 10, 1, TRUE >>, << 900, 15, 2, FALSE >>,
      << 902, 10, 3, TRUE >>, << 902, 5, 4, FALSE >> }

\* The engine driven with the submissions of order_test, in any order and
\* any number of times.
NextScenario ==
    \/ \E c \in ScenarioCalls : submit_order(c[1], c[2], c[3], c[4])
    \/ match_buy_outer
    \/ match_buy_inner
    \/ match_sell_outer
    \/ match_sell_inner
    \/ submit_add_order

SpecScenario == Init /\ [][NextScenario]_vars

\* ------------------------------------------------- auxiliary definitions
\* Slots reachable from p via next_ (at most `fuel` of them).
RECURSIVE Walk(_, _, _)
Walk(pool, p, fuel) ==
    IF p = nullptr \/ fuel = 0
    THEN << >>
    ELSE << p >> \o Walk(pool, pool[p].next_, fuel - 1)

Queue(s, lv) == Walk(s.pool_.pool_, s.levels_[lv].first_, MAX_ORDERS + 1)
FreeList(s) == Walk(s.pool_.pool_, s.pool_.next_free_, MAX_ORDERS + 1)

RECURSIVE SumQty(_, _)
SumQty(pool, q) ==
    IF q = << >> THEN 0 ELSE pool[Head(q)].quantity_ + SumQty(pool, Tail(q))

RECURSIVE SumTrades(_)
SumTrades(t) ==
    IF t = << >> THEN 0 ELSE Head(t).quantity + SumTrades(Tail(t))

RECURSIVE SumLevels(_, _)
SumLevels(s, n) ==
    IF n = 0 THEN 0 ELSE s.levels_[n - 1].total_quantity_ + SumLevels(s, n - 1)
RestingQty(s) == SumLevels(s, NUM_LEVELS)

Occurrences(q, x) == Cardinality({ i \in 1 .. Len(q) : q[i] = x })
Pos(q, x) == CHOOSE i \in 1 .. Len(q) : q[i] = x

\* The side an incoming order matches against, and the side it rests on.
ContraSide == IF incoming.is_bid THEN asks ELSE bids
OwnSide == IF incoming.is_bid THEN bids ELSE asks
EntryContra == IF incoming.is_bid THEN entry.asks ELSE entry.bids
EntryOwn == IF incoming.is_bid THEN entry.bids ELSE entry.asks
ContraEnqueued == IF incoming.is_bid THEN enqueued.asks ELSE enqueued.bids

\* A step that emits a trade, and the slot whose order is its maker: the one
\* resting order whose quantity the step reduces.
TradeStep == Len(trades') = Len(trades) + 1
IsMaker(m) ==
    ContraSide'.pool_.pool_[m].quantity_ < ContraSide.pool_.pool_[m].quantity_

\* Order a was enqueued before order m, rests at the same price and still has
\* quantity.
OlderAtSamePrice(a, m) ==
    /\ Occurrences(ContraEnqueued, a) = 1
    /\ Occurrences(ContraEnqueued, m) = 1
    /\ Pos(ContraEnqueued, a) < Pos(ContraEnqueued, m)
    /\ ContraSide.pool_.pool_[a].price_ = ContraSide.pool_.pool_[m].price_
    /\ ContraSide.pool_.pool_[a].quantity_ > 0

\* ---------------------------------------------------------------- claims
\* C1: price-time priority within a level.  Whenever a step of match_buy or
\* match_sell emits a trade, its maker has no older order with remaining
\* quantity at the same price; and if the incoming quantity covers the
\* maker's remaining quantity the maker is fully filled, unlinked from
\* its level and no longer the head, before any later trade.
C1_PriceTimePriority ==
    [][ TradeStep =>
          \E m \in Slots :
            /\ IsMaker(m)
            /\ \A a \in Slots \ { m } : ~ OlderAtSamePrice(a, m)
            /\ incoming_quantity >= ContraSide.pool_.pool_[m].quantity_ =>
                 /\ ContraSide'.pool_.pool_[m].quantity_ = 0
                 /\ \A lv \in LevelIdx : Occurrences(Queue(ContraSide', lv), m) = 0
      ]_vars

\* C1 witness: a call has returned that found two orders queued at one contra
\* level and traded with both of them at that level's price.
C1_Witness ==
    /\ pc = "idle"
    /\ Len(trades) = 2
    /\ \E lv \in LevelIdx :
         /\ Len(Queue(EntryContra, lv)) = 2
         /\ trades[1].price = EntryContra.levels_[lv].price_
         /\ trades[2].price = EntryContra.levels_[lv].price_
         /\ Queue(ContraSide, lv) = << >>

\* Trade prices of the current call run from the best contra price to worse.
TradesBestToWorst(t, is_bid) ==
    \A i \in 1 .. (Len(t) - 1) :
        IF is_bid THEN t[i].price <= t[i + 1].price
                  ELSE t[i].price >= t[i + 1].price

\* Level lv of side s holds resting quantity.
HoldsQuantity(s, lv) ==
    s.levels_[lv].total_quantity_ > 0 \/ s.levels_[lv].first_ # nullptr

\* C2: levels are consumed best to worst within one call.  The trade prices
\* of an incoming bid never decrease, those of an incoming ask never
\* increase, and when a trade is emitted at contra level L no strictly better
\* contra level (lower for asks, higher for bids) holds resting quantity.
C2_BestToWorst ==
    [][ TradeStep =>
          LET L == price_to_index(trades'[Len(trades')].price) IN
          /\ TradesBestToWorst(trades', incoming.is_bid)
          /\ \A lv \in LevelIdx :
               (IF incoming.is_bid THEN lv < L ELSE lv > L) =>
                   ~ HoldsQuantity(ContraSide, lv)
      ]_vars

\* C2 witness: a returned call traded at two different contra levels and
\* left quantity at the second one.
C2_Witness ==
    /\ pc = "idle"
    /\ Len(trades) = 2
    /\ trades[1].price # trades[2].price
    /\ HoldsQuantity(ContraSide, price_to_index(trades[2].price))

\* C3: no adverse price execution.  Every emitted trade carries the price
\* stored in its maker, which is the price of the level the maker rests in,
\* and that price crosses the incoming limit: maker ask <= incoming bid,
\* maker bid >= incoming ask.
C3_MakerPrice ==
    [][ TradeStep =>
          LET t == trades'[Len(trades')] IN
          \E m \in Slots :
            /\ IsMaker(m)
            /\ t.price = ContraSide.pool_.pool_[m].price_
            /\ \E lv \in LevelIdx :
                 /\ Occurrences(Queue(ContraSide, lv), m) = 1
                 /\ ContraSide.levels_[lv].price_ = t.price
            /\ IF incoming.is_bid THEN t.price <= incoming.price
                                  ELSE t.price >= incoming.price
      ]_vars

\* C3 witness: a returned call got a trade at a price strictly better than
\* its own limit (the maker's price, not the taker's).
C3_Witness ==
    /\ pc = "idle"
    /\ Len(trades) >= 1
    /\ trades[1].price # incoming.price
    /\ price_in_range(incoming.price)

\* The level a brute-force scan of the ladder finds best: the highest index
\* with quantity for bids, the lowest for asks, NUM_LEVELS when there is none.
ScanBestBid(s) ==
    IF \E i \in LevelIdx : s.levels_[i].total_quantity_ > 0
    THEN CHOOSE i \in LevelIdx :
            /\ s.levels_[i].total_quantity_ > 0
            /\ \A j \in LevelIdx : j > i => s.levels_[j].total_quantity_ = 0
    ELSE NUM_LEVELS

ScanBestAsk(s) ==
    IF \E i \in LevelIdx : s.levels_[i].total_quantity_ > 0
    THEN CHOOSE i \in LevelIdx :
            /\ s.levels_[i].total_quantity_ > 0
            /\ \A j \in LevelIdx : j < i => s.levels_[j].total_quantity_ = 0
    ELSE NUM_LEVELS

\* C4: cursor invariant.  After every submit_order call each side's
\* best_price_index_ equals the result of a brute-force scan of its ladder.
C4_CursorInvariant ==
    pc = "idle" =>
        /\ bids.best_price_index_ = ScanBestBid(bids)
        /\ asks.best_price_index_ = ScanBestAsk(asks)

\* C4 witness: a returned call depleted the best bid level and the rescan
\* stepped over an empty level to the next bid level with quantity.
C4_Witness ==
    /\ pc = "idle"
    /\ entry.bids.best_price_index_ # NUM_LEVELS
    /\ bids.best_price_index_ + 1 < entry.bids.best_price_index_
    /\ bids.levels_[bids.best_price_index_].total_quantity_ > 0

\* C5: aggregate invariant.  Between calls, on both sides, the
\* total_quantity_ of every level is the sum of quantity_ over its queue.
C5_AggregateInvariant ==
    pc = "idle" =>
        \A lv \in LevelIdx :
            /\ bids.levels_[lv].total_quantity_ = SumQty(bids.pool_.pool_, Queue(bids, lv))
            /\ asks.levels_[lv].total_quantity_ = SumQty(asks.pool_.pool_, Queue(asks, lv))

\* C5 witness: a returned call partly filled the head of a contra level that
\* queues two orders.
C5_Witness ==
    /\ pc = "idle"
    /\ Len(trades) >= 1
    /\ \E lv \in LevelIdx :
         /\ Len(Queue(ContraSide, lv)) = 2
         /\ ContraSide.levels_[lv].total_quantity_ < EntryContra.levels_[lv].total_quantity_

\* Quantity the call added to the resting quantity of the order's own side.
NewlyRested == RestingQty(OwnSide) - RestingQty(EntryOwn)

\* The unmatched remainder that add_order could not store.
Dropped == IF EntryOwn.pool_.next_free_ = nullptr THEN incoming_quantity ELSE 0

\* C6 as stated: after a call, the incoming quantity is the sum of the trade
\* quantities plus the newly rested quantity, the latter being 0 when the
\* remainder was dropped.
C6_ConservationAsStated ==
    pc = "idle" => incoming.quantity = SumTrades(trades) + NewlyRested

\* C6 amended: conservation with the dropped remainder accounted for.  After
\* a call that returns, the incoming quantity is the sum of the trade
\* quantities, the newly rested quantity and the dropped quantity, where the
\* dropped quantity is the unmatched remainder if the own-side arena had no
\* free slot and 0 otherwise; nothing is rested when a remainder is dropped.
C6_Conservation ==
    pc = "idle" =>
        /\ incoming.quantity = SumTrades(trades) + NewlyRested + Dropped
        /\ Dropped > 0 => NewlyRested = 0
        /\ NewlyRested >= 0

\* C6 witness: a returned call was partly matched and its remainder rested.
C6_Witness ==
    /\ pc = "idle"
    /\ Len(trades) >= 1
    /\ NewlyRested > 0
    /\ SumTrades(trades) + NewlyRested = incoming.quantity

\* C7: an out-of-range price is rejected before any mutation.  During and
\* after a call whose price is outside [PRICE_MIN, PRICE_MAX] there are no
\* trades and both sides are as they were at call entry.
C7_InvalidPriceRejected ==
    ~ price_in_range(incoming.price) =>
        /\ trades = << >>
        /\ bids = entry.bids
        /\ asks = entry.asks

\* C8: capacity exhaustion.  When a call returns with an unmatched remainder
\* and the own-side arena had no free slot, the own side is exactly as at
\* call entry, and the trades of the matching phase are in the collector
\* with their quantity taken from the contra side.
C8_CapacityExhausted ==
    ( /\ pc = "idle"
      /\ incoming.quantity > 0
      /\ incoming_quantity > 0
      /\ EntryOwn.pool_.next_free_ = nullptr ) =>
        /\ OwnSide = EntryOwn
        /\ SumTrades(trades) = incoming.quantity - incoming_quantity
        /\ RestingQty(ContraSide) = RestingQty(EntryContra) - SumTrades(trades)
        /\ \A i \in 1 .. Len(trades) : trades[i].taker_order_id = incoming.id

\* C8 witness: a returned call traded, kept a remainder and found its own
\* arena exhausted.
C8_Witness ==
    /\ pc = "idle"
    /\ Len(trades) >= 1
    /\ incoming_quantity > 0
    /\ EntryOwn.pool_.next_free_ = nullptr
    /\ ContraSide # EntryContra

\* C9: a zero-quantity submission is a no-op.  It returns at once with an
\* empty trade sequence and both sides exactly as before the call.
C9_ZeroQuantityNoOp ==
    incoming.quantity = 0 =>
        /\ pc = "idle"
        /\ trades = << >>
        /\ bids = entry.bids
        /\ asks = entry.asks

\* C9 witness: a zero-quantity bid at a price that crosses resting asks, in
\* a book with resting orders on both sides.
C9_Witness ==
    /\ pc = "idle"
    /\ incoming.quantity = 0
    /\ incoming.is_bid
    /\ bids.best_price_index_ # NUM_LEVELS
    /\ asks.best_price_index_ # NUM_LEVELS
    /\ asks.levels_[asks.best_price_index_].price_ <= incoming.price

\* Number of places slot x is linked into a level queue of side s.
InQueues(s, x) ==
    Cardinality({ p \in LevelIdx \X (1 .. (MAX_ORDERS + 1)) :
                    /\ p[2] <= Len(Queue(s, p[1]))
                    /\ Queue(s, p[1])[p[2]] = x })

SlotSafe(s) ==
    /\ \A x \in Slots : Occurrences(FreeList(s), x) + InQueues(s, x) = 1
    /\ Cardinality({ x \in Slots : InQueues(s, x) = 1 }) <= MAX_ORDERS
    /\ allocate(s.pool_).order # nullptr => InQueues(s, allocate(s.pool_).order) = 0

\* C10: arena slot safety.  In every state of a defined execution, on each
\* side, every pool slot is exactly once on the free list or exactly once in
\* one level queue, never both; allocate hands out no slot that is linked
\* into a queue.
C10_SlotSafety ==
    pc # "undefined" => SlotSafe(bids) /\ SlotSafe(asks)

\* C10 witness: on the bid side the first slot has been released and is the
\* free-list head while the second slot still holds a resting order.
C10_Witness ==
    /\ FreeList(bids) = << 0 >>
    /\ InQueues(bids, 1) = 1
    /\ InQueues(bids, 0) = 0

\* No queued order of side s has quantity 0.
NoEmptyOrderQueued(s) ==
    \A lv \in LevelIdx :
        \A i \in 1 .. Len(Queue(s, lv)) : s.pool_.pool_[Queue(s, lv)[i]].quantity_ > 0

LevelEmptiness(s) ==
    /\ \A lv \in LevelIdx :
         /\ (s.levels_[lv].total_quantity_ = 0) <=> (s.levels_[lv].first_ = nullptr)
         /\ (s.levels_[lv].first_ = nullptr) <=> (s.levels_[lv].last_ = nullptr)
    /\ NoEmptyOrderQueued(s)

\* C11: level emptiness.  Between calls, for every level of both sides,
\* total_quantity_ is 0 exactly when first_ is null, exactly when last_ is
\* null, and no queued order has quantity 0.
C11_LevelEmptiness ==
    pc = "idle" => LevelEmptiness(bids) /\ LevelEmptiness(asks)

\* C11 witness: a returned call emptied one contra level (a maker was filled
\* to 0 and unlinked) while another contra level still queues an order.
C11_Witness ==
    /\ pc = "idle"
    /\ \E lv \in LevelIdx :
         /\ EntryContra.levels_[lv].first_ # nullptr
         /\ ContraSide.levels_[lv].first_ = nullptr
         /\ ContraSide.levels_[lv].last_ = nullptr
         /\ ContraSide.levels_[lv].total_quantity_ = 0
    /\ \E lv \in LevelIdx : ContraSide.levels_[lv].first_ # nullptr

\* C12: fresh trade sequence per call.  The step that enters submit_order
\* leaves the collector empty whatever it held; every later step of the call
\* leaves it alone or appends one trade whose taker is the call's id; so the
\* collector holds only trades of the current call, and their quantities add
\* up to what the call has taken from the contra side.
C12_FreshTrades ==
    [][ /\ pc = "idle" => trades' = << >>
        /\ pc # "idle" =>
             \/ trades' = trades
             \/ /\ Len(trades') = Len(trades) + 1
                /\ SubSeq(trades', 1, Len(trades)) = trades
                /\ trades'[Len(trades')].taker_order_id = incoming.id
        /\ \A i \in 1 .. Len(trades') : trades'[i].taker_order_id = incoming'.id
        /\ SumTrades(trades') = RestingQty(EntryContra') - RestingQty(ContraSide')
      ]_vars

\* C12 witness: a returned bid holds its own trade in the collector, and the
\* bid side shows that an earlier call, an ask with another id, had traded: a
\* released bid slot still carries the price of its filled order.
C12_Witness ==
    /\ pc = "idle"
    /\ incoming.is_bid
    /\ Len(trades) >= 1
    /\ \A i \in 1 .. Len(trades) :
         trades[i].taker_order_id = incoming.id /\ trades[i].maker_order_id # incoming.id
    /\ \E x \in Slots :
         /\ Occurrences(FreeList(entry.bids), x) = 1
         /\ entry.bids.pool_.pool_[x].price_ # 0

\* The orders queued at level lv of side s, oldest first, as << id, quantity >>.
LevelOrders(s, lv) ==
    [ i \in 1 .. Len(Queue(s, lv)) |->
        << s.pool_.pool_[Queue(s, lv)[i]].order_id_,
           s.pool_.pool_[Queue(s, lv)[i]].quantity_ >> ]

RECURSIVE SumOrders(_)
SumOrders(o) == IF o = << >> THEN 0 ELSE Head(o)[2] + SumOrders(Tail(o))

\* Side s rests exactly the orders of `book` (per level, oldest first), with
\* matching aggregates, and its cursor is `cursor`.
SideIs(s, book, cursor) ==
    /\ \A lv \in LevelIdx :
         /\ LevelOrders(s, lv) = book[lv]
         /\ s.levels_[lv].total_quantity_ = SumOrders(book[lv])
    /\ s.best_price_index_ = cursor

NoOrders == [ lv \in LevelIdx |-> << >> ]
Idx900 == price_to_index(900)
Idx901 == price_to_index(901)

Called(price, quantity, id, is_bid) ==
    /\ pc = "idle"
    /\ incoming = [ price |-> price, quantity |-> quantity, id |-> id, is_bid |-> is_bid ]

\* Bids after bid(900, 20, id 0), after bid(901, 10, id 1), after ask(900, 15, id 2).
BidsFirst == [ NoOrders EXCEPT ![Idx900] = << << 0, 20 >> >> ]
BidsSecond == [ NoOrders EXCEPT ![Idx900] = << << 0, 20 >> >>, ![Idx901] = << << 1, 10 >> >> ]
BidsThird == [ NoOrders EXCEPT ![Idx900] = << << 0, 15 >> >> ]

\* C13: the worked scenario.  On the empty book bid(900, 20, id 0) gives no
\* trades and bids {900:20}; then bid(901, 10, id 1) gives no trades and bids
\* {901:10, 900:20} with the cursor at 901; then ask(900, 15, id 2) gives the
\* trades (2, 1, 901, 10) and (2, 0, 900, 5) in that order and leaves bid id 0
\* with 15 at 900 as the only bid, the bid cursor at 900, no asks.
C13_WorkedScenario ==
    /\ ( /\ Called(900, 20, 0, TRUE)
         /\ SideIs(entry.bids, NoOrders, NUM_LEVELS)
         /\ SideIs(entry.asks, NoOrders, NUM_LEVELS) ) =>
            /\ trades = << >>
            /\ SideIs(bids, BidsFirst, Idx900)
            /\ SideIs(asks, NoOrders, NUM_LEVELS)
    /\ ( /\ Called(901, 10, 1, TRUE)
         /\ SideIs(entry.bids, BidsFirst, Idx900)
         /\ SideIs(entry.asks, NoOrders, NUM_LEVELS) ) =>
            /\ trades = << >>
            /\ SideIs(bids, BidsSecond, Idx901)
            /\ SideIs(asks, NoOrders, NUM_LEVELS)
    /\ ( /\ Called(900, 15, 2, FALSE)
         /\ SideIs(entry.bids, BidsSecond, Idx901)
         /\ SideIs(entry.asks, NoOrders, NUM_LEVELS) ) =>
            /\ trades = << Trade(2, 1, 901, 10), Trade(2, 0, 900, 5) >>
            /\ SideIs(bids, BidsThird, Idx900)
            /\ SideIs(asks, NoOrders, NUM_LEVELS)

\* C13 witness: ask(900, 15, id 2) has returned with two trades, called on
\* exactly the book that the two bids build from the constructed one.
C13_Witness ==
    /\ Called(900, 15, 2, FALSE)
    /\ entry.asks = OrderBookSide(FALSE)
    /\ entry.bids = add_order(add_order(OrderBookSide(TRUE), 900, 20, 0), 901, 10, 1)
    /\ Len(trades) = 2

\* The orders queued at level lv of side s, oldest first, with all fields.
LevelPayloads(s, lv) ==
    [ i \in 1 .. Len(Queue(s, lv)) |->
        [ order_id_ |-> s.pool_.pool_[Queue(s, lv)[i]].order_id_,
          price_    |-> s.pool_.pool_[Queue(s, lv)[i]].price_,
          quantity_ |-> s.pool_.pool_[Queue(s, lv)[i]].quantity_ ] ]

\* C14: routing and frame.  A returned in-range call with quantity q > 0 and
\* no trades leaves the contra side as it was and, if its own arena had a
\* free slot, has appended the order (id, price, q) at the tail of the own
\* level of its price, raised that level's total_quantity_ by q and changed
\* no other level; a returned call that was fully filled leaves its own side
\* as it was.
C14_RoutingAndFrame ==
    /\ ( /\ pc = "idle"
         /\ price_in_range(incoming.price)
         /\ incoming.quantity > 0
         /\ trades = << >> ) =>
            /\ ContraSide = EntryContra
            /\ EntryOwn.pool_.next_free_ # nullptr =>
                 LET idx == price_to_index(incoming.price) IN
                 /\ LevelPayloads(OwnSide, idx) =
                        Append(LevelPayloads(EntryOwn, idx),
                               [ order_id_ |-> incoming.id, price_ |-> incoming.price,
                                 quantity_ |-> incoming.quantity ])
                 /\ SubSeq(Queue(OwnSide, idx), 1, Len(Queue(EntryOwn, idx))) = Queue(EntryOwn, idx)
                 /\ OwnSide.levels_[idx].last_ = Queue(OwnSide, idx)[Len(Queue(OwnSide, idx))]
                 /\ OwnSide.levels_[idx].total_quantity_ =
                        EntryOwn.levels_[idx].total_quantity_ + incoming.quantity
                 /\ \A lv \in LevelIdx \ { idx } :
                        /\ OwnSide.levels_[lv] = EntryOwn.levels_[lv]
                        /\ Queue(OwnSide, lv) = Queue(EntryOwn, lv)
                        /\ LevelPayloads(OwnSide, lv) = LevelPayloads(EntryOwn, lv)
    /\ ( /\ pc = "idle"
         /\ incoming.quantity > 0
         /\ SumTrades(trades) = incoming.quantity ) =>
            OwnSide = EntryOwn

\* C14 witness: a returned call without trades has rested its whole quantity
\* behind an order already queued at its price, while the contra side holds
\* orders it did not cross.
C14_Witness ==
    /\ pc = "idle"
    /\ price_in_range(incoming.price)
    /\ incoming.quantity > 0
    /\ trades = << >>
    /\ Len(Queue(EntryOwn, price_to_index(incoming.price))) = 1
    /\ Len(Queue(OwnSide, price_to_index(incoming.price))) = 2
    /\ RestingQty(ContraSide) > 0

\* C15: the book never rests crossed.  After every call, if both sides hold
\* resting quantity, the best bid price is strictly below the best ask price.
C15_NeverCrossed ==
    ( /\ pc = "idle"
      /\ RestingQty(bids) > 0
      /\ RestingQty(asks) > 0 ) =>
        bids.levels_[ScanBestBid(bids)].price_ < asks.levels_[ScanBestAsk(asks)].price_

\* C15 witness: a returned call traded, then rested its remainder one tick
\* away from the best contra price left behind.
C15_Witness ==
    /\ pc = "idle"
    /\ Len(trades) >= 1
    /\ NewlyRested > 0
    /\ RestingQty(bids) > 0
    /\ RestingQty(asks) > 0
    /\ bids.levels_[ScanBestBid(bids)].price_ + TICK_SIZE = asks.levels_[ScanBestAsk(asks)].price_

\* The head of every level of a side stays the head, with its quantity,
\* from s to t unless a trade brought it to quantity 0.
HeadKept(s, t, traded) ==
    \A lv \in LevelIdx :
        LET m == s.levels_[lv].first_ IN
        m # nullptr =>
            /\ t.levels_[lv].first_ # m => traded /\ t.pool_.pool_[m].quantity_ = 0
            /\ t.pool_.pool_[m].quantity_ # s.pool_.pool_[m].quantity_ => traded

\* C16: a partial fill keeps the queue position.  The maker of every trade
\* is the head of the contra level of the trade's price; when the trade
\* quantity is below the maker's remaining quantity, the maker stays the
\* head of an unchanged queue with its quantity reduced by the trade
\* quantity, its slot is not released, the level's total_quantity_ drops by
\* the same amount and the cursor is unchanged; and no step replaces the
\* head of a level except a trade that fills it, so the partly filled maker
\* is the maker of the next trade at its level.
C16_PartialFillKeepsPosition ==
    [][ /\ TradeStep =>
            LET t  == trades'[Len(trades')]
                lv == price_to_index(t.price)
                m  == ContraSide.levels_[lv].first_
            IN  /\ m # nullptr
                /\ t.maker_order_id = ContraSide.pool_.pool_[m].order_id_
                /\ t.price = ContraSide.pool_.pool_[m].price_
                /\ t.quantity < ContraSide.pool_.pool_[m].quantity_ =>
                     /\ ContraSide'.levels_[lv].first_ = m
                     /\ Queue(ContraSide', lv) = Queue(ContraSide, lv)
                     /\ ContraSide'.pool_.pool_[m].quantity_ =
                            ContraSide.pool_.pool_[m].quantity_ - t.quantity
                     /\ FreeList(ContraSide') = FreeList(ContraSide)
                     /\ ContraSide'.levels_[lv].total_quantity_ =
                            ContraSide.levels_[lv].total_quantity_ - t.quantity
                     /\ ContraSide'.best_price_index_ = ContraSide.best_price_index_
        /\ HeadKept(bids, bids', TradeStep /\ ~ incoming.is_bid)
        /\ HeadKept(asks, asks', TradeStep /\ incoming.is_bid)
      ]_vars

\* C16 witness: a call has returned that filled the head of a contra level
\* only partly; the same slot is still the head, behind it the order that
\* was queued second, and its quantity is lower than at entry but not 0.
C16_Witness ==
    /\ pc = "idle"
    /\ Len(trades) = 1
    /\ LET lv == price_to_index(trades[1].price)
           m  == EntryContra.levels_[lv].first_
       IN  /\ Len(Queue(EntryContra, lv)) = 2
           /\ Queue(ContraSide, lv) = Queue(EntryContra, lv)
           /\ ContraSide.pool_.pool_[m].quantity_ =
                  EntryContra.pool_.pool_[m].quantity_ - trades[1].quantity
           /\ ContraSide.pool_.pool_[m].quantity_ > 0

\* The slots queued on the ask side from level lv upwards, best price first
\* and oldest first within a level; likewise the bid side from lv downwards.
RECURSIVE AsksBestFirst(_, _)
AsksBestFirst(s, lv) ==
    IF lv >= NUM_LEVELS THEN << >> ELSE Queue(s, lv) \o AsksBestFirst(s, lv + 1)

RECURSIVE BidsBestFirst(_, _)
BidsBestFirst(s, lv) ==
    IF lv < 0 THEN << >> ELSE Queue(s, lv) \o BidsBestFirst(s, lv - 1)

\* The contra orders resting at call entry, in price-time priority.
EntryMatchOrder ==
    IF incoming.is_bid THEN AsksBestFirst(entry.asks, 0)
                       ELSE BidsBestFirst(entry.bids, NUM_LEVELS - 1)

\* The i-th trade of the call took all that its maker held at call entry.
FullFill(i) ==
    trades[i].quantity = EntryContra.pool_.pool_[EntryMatchOrder[i]].quantity_

\* C17: at most one partial fill per submission.  The i-th trade of a call
\* is made with the i-th contra order in priority order at call entry, so
\* no resting order is the maker of two trades; every trade has quantity at
\* least 1 and at most what its maker held; every trade but the last took
\* all its maker held, and that maker is in no queue and on the free list.
C17_OnePartialFill ==
    /\ Len(trades) <= Len(EntryMatchOrder)
    /\ \A i, j \in 1 .. Len(EntryMatchOrder) :
           i # j => EntryMatchOrder[i] # EntryMatchOrder[j]
    /\ \A i \in 1 .. Len(trades) :
           LET m == EntryMatchOrder[i] IN
           /\ trades[i].quantity >= 1
           /\ trades[i].quantity <= EntryContra.pool_.pool_[m].quantity_
           /\ trades[i].maker_order_id = EntryContra.pool_.pool_[m].order_id_
           /\ trades[i].price = EntryContra.pool_.pool_[m].price_
           /\ ( i < Len(trades) \/ FullFill(i) ) =>
                  /\ FullFill(i)
                  /\ InQueues(ContraSide, m) = 0
                  /\ Occurrences(FreeList(ContraSide), m) = 1
           /\ ~ FullFill(i) =>
                  /\ InQueues(ContraSide, m) = 1
                  /\ ContraSide.pool_.pool_[m].quantity_ =
                         EntryContra.pool_.pool_[m].quantity_ - trades[i].quantity

\* C17 witness: a returned call made two trades, the first filling its maker
\* and the second, the last, leaving quantity with its maker.
C17_Witness ==
    /\ pc = "idle"
    /\ Len(trades) = 2
    /\ FullFill(1)
    /\ ~ FullFill(2)

\* The number of orders queued on side s.
QueuedCount(s) == Len(AsksBestFirst(s, 0))

\* The number of trades of the call that filled their maker.
FullFills == Cardinality({ i \in 1 .. Len(trades) : FullFill(i) })

\* C18: slot recycling.  On each side the free list is as long as MAX_ORDERS
\* minus the number of orders queued on that side; a returned call that
\* filled k contra orders has made the contra free list k longer than at
\* entry, also when it was empty at entry; and a returned in-range call with
\* a remainder has rested it, taking one slot, exactly when its own side's
\* free list was not empty at entry.
C18_SlotRecycling ==
    /\ Len(FreeList(bids)) = MAX_ORDERS - QueuedCount(bids)
    /\ Len(FreeList(asks)) = MAX_ORDERS - QueuedCount(asks)
    /\ pc = "idle" =>
         /\ Len(FreeList(ContraSide)) = Len(FreeList(EntryContra)) + FullFills
         /\ ( price_in_range(incoming.price) /\ incoming_quantity > 0 ) =>
              IF FreeList(EntryOwn) # << >>
              THEN /\ NewlyRested = incoming_quantity
                   /\ Len(FreeList(OwnSide)) = Len(FreeList(EntryOwn)) - 1
              ELSE /\ NewlyRested = 0
                   /\ OwnSide = EntryOwn

\* C18 witness: a call met a contra side with a full arena, filled both of
\* its orders, and returned with both slots on that side's free list.
C18_Witness ==
    /\ pc = "idle"
    /\ FreeList(EntryContra) = << >>
    /\ QueuedCount(EntryContra) = MAX_ORDERS
    /\ FullFills = 2
    /\ Len(FreeList(ContraSide)) = 2

\* C19: submit_order terminates.  A call in progress is always at a step of
\* the matching loops or at add_order, never stopped short of its return,
\* and it has made at most as many trades as contra orders rested at entry.
C19_SubmitOrderReturns ==
    /\ pc \in { "idle", "match_buy", "match_buy_inner", "match_sell",
                "match_sell_inner", "add_order" }
    /\ Len(trades) <= QueuedCount(EntryContra)

====
